---- MODULE Spec2Model ----
(***************************************************************************)
(* Model of src/fuzzy-search.ts: the FuzzyMatchSettings constructor and    *)
(* the two search entry points fuzzySearch and fuzzySearchByProperty.      *)
(*                                                                         *)
(* A JavaScript string is a sequence of characters; a character is a       *)
(* one-element token ("d", "D", ...); "sz" stands for U+00DF (sharp s).    *)
(* An optional argument is a sequence of length <= 1: << >> is undefined,  *)
(* <<v>> is the supplied value v.                                          *)
(* An item of the searched list is a record [kind, text]:                  *)
(*   kind "string": the item is the plain string text;                     *)
(*   kind "object": the item is an object whose property `name` is text;   *)
(*   kind "bare"  : the item is an object without a property `name`.       *)
(* itemProperty is "null" or the property name "name".                     *)
(***************************************************************************)
EXTENDS Integers, Sequences, FiniteSets, TLC

VARIABLES
  settings,                \* the caller's settings bundle: << >> until one is constructed
  op,                      \* the last call: "none", "new", "fuzzySearch", "fuzzySearchByProperty"
  args,                    \* arguments of the last constructor call
  thrown,                  \* the error the last call raised, "none" if it returned
  searchString,            \* arguments of the last search call
  items,
  itemProperty,
  result,                  \* the sequence the last search call returned (or has built so far)
  pc,                      \* position inside a search call executed step by step
  idx,                     \* index of the current item of `for (const item of items)`
  left,                    \* locals of the sliding-window loop
  i,
  current_mismatch_count

vars == <<settings, op, args, thrown, searchString, items, itemProperty, result,
          pc, idx, left, i, current_mismatch_count>>

callVars == <<op, args, thrown, searchString, items, itemProperty, result>>
loopVars == <<pc, idx, left, i, current_mismatch_count>>

-----------------------------------------------------------------------------
(* Bounds of the atomic model (Spec) and of the step-by-step model (LoopSpec) *)

MaxSearchLen == 2
MaxItemLen == 2
MaxItems == 2
MaxLoopLen == 4

Chars == {"d", "D", "sz"}
LoopChars == {"d", "D"}

\* the strings (lists) of at most n characters (elements) of elems
SeqsUpTo(elems, n) == UNION {[1..k -> elems] : k \in 0..n}

Range(s) == {s[k] : k \in 1..Len(s)}

-----------------------------------------------------------------------------
(* JavaScript built-ins used by the source *)

\* String.prototype.toLowerCase on one character
toLowerCaseChar(c) ==
  CASE c = "D" -> "d"
    [] c = "S" -> "s"
    [] OTHER -> c

\* String.prototype.toLowerCase
toLowerCase(s) == [k \in 1..Len(s) |-> toLowerCaseChar(s[k])]

\* String(undefined)
UndefinedText == <<"u", "n", "d", "e", "f", "i", "n", "e", "d">>

\* String.prototype.includes
includes(text, s) ==
  \E off \in 0..(Len(text) - Len(s)) : SubSeq(text, off + 1, off + Len(s)) = s

\* typeof item === 'string'
IsString(item) == item.kind = "string"

\* typeof item[itemProperty] === 'string' for a non-string item
PropertyIsString(item, property) == item.kind = "object" /\ property = "name"

\* String(x[itemProperty]): a string has neither a property `name` nor `null`
PropertyText(item, property) ==
  IF PropertyIsString(item, property) THEN item.text ELSE UndefinedText

-----------------------------------------------------------------------------
(* class FuzzyMatchSettings *)

maximum_allowed_mismatch == 50
default__minimum_length_for_search == 1
default__minimum_length_for_fuzzy_match == 5
default__percentage_allowed_mismatch == 25
default__case_sensitive_match == FALSE

\* variant: only undefined is replaced by the default (x === undefined)
FalsyNumberStrict(a) == a = << >>

\* !x for an optional number: undefined and 0 are falsy
FalsyNumber(a) == a = << >> \/ a[1] = 0

\* !x for an optional boolean: undefined and false are falsy
FalsyBoolean(a) == a = << >> \/ a[1] = FALSE

OrDefaultNumber(a, default) == IF FalsyNumber(a) THEN default ELSE a[1]

OrDefaultBoolean(a, default) == IF FalsyBoolean(a) THEN default ELSE a[1]

\* the constructor: [error |-> the exception or "none", value |-> the object]
FuzzyMatchSettings(a, b, c, d) ==
  LET minimum_length_for_search == OrDefaultNumber(a, default__minimum_length_for_search)
      minimum_length_for_fuzzy_match == OrDefaultNumber(b, default__minimum_length_for_fuzzy_match)
      percentage_allowed_mismatch == OrDefaultNumber(c, default__percentage_allowed_mismatch)
      case_sensitive_match == OrDefaultBoolean(d, default__case_sensitive_match)
      value == [minimum_length_for_search |-> minimum_length_for_search,
                minimum_length_for_fuzzy_match |-> minimum_length_for_fuzzy_match,
                percentage_allowed_mismatch |-> percentage_allowed_mismatch,
                case_sensitive_match |-> case_sensitive_match]
  IN  IF minimum_length_for_search <= 0
        THEN [error |-> "minimum_length_for_search", value |-> value]
      ELSE IF minimum_length_for_fuzzy_match <= 0
        THEN [error |-> "minimum_length_for_fuzzy_match", value |-> value]
      ELSE IF percentage_allowed_mismatch < 0
              \/ percentage_allowed_mismatch > maximum_allowed_mismatch
        THEN [error |-> "percentage_allowed_mismatch", value |-> value]
      ELSE [error |-> "none", value |-> value]

\* if (!searchSettings) searchSettings = new FuzzyMatchSettings();
EffectiveSettings(searchSettings) ==
  IF searchSettings = << >>
    THEN FuzzyMatchSettings(<< >>, << >>, << >>, << >>).value
    ELSE searchSettings[1]

-----------------------------------------------------------------------------
(* function fuzzySearchByProperty *)

\* variant: the guard looks at every element
UsageErrorEach(its, property) ==
  \E k \in 1..Len(its) :
    ~IsString(its[k]) /\ (property = "null" \/ ~PropertyIsString(its[k], property))

\* the guard of the throw
UsageError(its, property) ==
  ~IsString(its[1]) /\ (property = "null" \/ ~PropertyIsString(its[1], property))

\* variant: off by one (searchLength + 1 < minimum_length_for_search)
BelowSearchLengthOffByOne(searchLength, s) ==
  searchLength + 1 < s.minimum_length_for_search

\* searchLength < searchSettings.minimum_length_for_search
BelowSearchLength(searchLength, s) == searchLength < s.minimum_length_for_search

\* searchLength < searchSettings.minimum_length_for_fuzzy_match
BelowFuzzyLength(searchLength, s) == searchLength < s.minimum_length_for_fuzzy_match

\* the filter that the direct-substring branch returns; the filters over
\* String(x) are evaluated and their results dropped
SubstringTier(search, its, property, s) ==
  IF s.case_sensitive_match
    THEN SelectSeq(its, LAMBDA x : includes(PropertyText(x, property), search))
    ELSE SelectSeq(its, LAMBDA x :
           includes(toLowerCase(PropertyText(x, property)), toLowerCase(search)))

\* searchString after `if (!case_sensitive_match) searchString = searchString.toLowerCase()`
SearchText(search, s) == IF ~s.case_sensitive_match THEN toLowerCase(search) ELSE search

\* variant: a plain string item is not lower-cased
ItemTextUnfolded(item, property, s) ==
  IF IsString(item)
    THEN item.text
    ELSE IF ~s.case_sensitive_match
           THEN toLowerCase(PropertyText(item, property))
           ELSE PropertyText(item, property)

\* const _item
ItemText(item, property, s) ==
  IF IsString(item)
    THEN IF ~s.case_sensitive_match THEN toLowerCase(item.text) ELSE item.text
    ELSE IF ~s.case_sensitive_match
           THEN toLowerCase(PropertyText(item, property))
           ELSE PropertyText(item, property)

max_allowed_mismatch_count(searchLength, s) ==
  (searchLength * s.percentage_allowed_mismatch) \div 100

\* the inner for loop from position k on: the counter when the loop is left
RECURSIVE CountWindow(_, _, _, _, _, _, _)
CountWindow(search, text, searchLength, lft, k, count, max) ==
  IF ~(k < lft + searchLength) THEN count
  ELSE IF search[k - lft + 1] # text[k + 1]
    THEN IF count + 1 > max THEN count + 1
         ELSE CountWindow(search, text, searchLength, lft, k + 1, count + 1, max)
    ELSE CountWindow(search, text, searchLength, lft, k + 1, count, max)

RECURSIVE ScanWindows(_, _, _, _, _)

\* variant: the last window is not scanned (left + searchLength < _item.length)
RECURSIVE ScanWindowsShort(_, _, _, _, _)
ScanWindowsShort(search, text, searchLength, lft, max) ==
  IF ~(lft + searchLength < Len(text)) THEN FALSE
  ELSE IF CountWindow(search, text, searchLength, lft, lft, 0, max) <= max THEN TRUE
  ELSE ScanWindowsShort(search, text, searchLength, lft + 1, max)

\* the while loop from window lft on: TRUE iff the item is pushed
ScanWindows(search, text, searchLength, lft, max) ==
  IF ~(lft + searchLength - 1 < Len(text)) THEN FALSE
  ELSE IF CountWindow(search, text, searchLength, lft, lft, 0, max) <= max THEN TRUE
  ELSE ScanWindows(search, text, searchLength, lft + 1, max)

RECURSIVE FuzzyTier(_, _, _, _, _, _, _)

\* variant: result.unshift(item) instead of result.push(item)
RECURSIVE FuzzyTierUnshift(_, _, _, _, _, _, _)
FuzzyTierUnshift(search, searchLength, its, property, s, k, acc) ==
  IF k > Len(its) THEN acc
  ELSE FuzzyTierUnshift(search, searchLength, its, property, s, k + 1,
         IF ScanWindows(search, ItemText(its[k], property, s), searchLength, 0,
                        max_allowed_mismatch_count(searchLength, s))
           THEN <<its[k]>> \o acc
           ELSE acc)

\* the for loop over items from index k on, pushing onto acc
FuzzyTier(search, searchLength, its, property, s, k, acc) ==
  IF k > Len(its) THEN acc
  ELSE FuzzyTier(search, searchLength, its, property, s, k + 1,
         IF ScanWindows(search, ItemText(its[k], property, s), searchLength, 0,
                        max_allowed_mismatch_count(searchLength, s))
           THEN Append(acc, its[k])
           ELSE acc)

\* [thrown |-> the exception or "none", result |-> the returned sequence]
fuzzySearchByProperty(search, its, property, searchSettings) ==
  IF Len(search) = 0 THEN [thrown |-> "none", result |-> << >>]
  ELSE IF Len(its) = 0 THEN [thrown |-> "none", result |-> << >>]
  ELSE IF UsageError(its, property) THEN [thrown |-> "usage", result |-> << >>]
  ELSE LET searchLength == Len(search)
           s == EffectiveSettings(searchSettings)
       IN  IF BelowSearchLength(searchLength, s) THEN [thrown |-> "none", result |-> << >>]
           ELSE IF BelowFuzzyLength(searchLength, s)
             THEN [thrown |-> "none", result |-> SubstringTier(search, its, property, s)]
           ELSE [thrown |-> "none",
                 result |-> FuzzyTier(SearchText(search, s), searchLength, its,
                                      property, s, 1, << >>)]

(* function fuzzySearch *)
fuzzySearch(search, its, searchSettings) ==
  fuzzySearchByProperty(search, its, "null", searchSettings)

-----------------------------------------------------------------------------
(* The atomic model: every call is one step *)

NoArgs == [a |-> << >>, b |-> << >>, c |-> << >>, d |-> << >>]

SearchLengthArgs == {<< >>, <<-1>>, <<0>>, <<2>>}
FuzzyLengthArgs == {<< >>, <<-1>>, <<0>>, <<1>>}
PercentageArgs == {<< >>, <<-1>>, <<0>>, <<50>>, <<51>>}
CaseArgs == {<< >>, <<FALSE>>, <<TRUE>>}

Queries == SeqsUpTo(Chars, MaxSearchLen)
Texts == SeqsUpTo(Chars, MaxItemLen)
StringItems == {[kind |-> "string", text |-> t] : t \in Texts}
ObjectItems == {[kind |-> "object", text |-> t] : t \in Texts}
                 \cup {[kind |-> "bare", text |-> << >>]}
StringLists == SeqsUpTo(StringItems, MaxItems)
ObjectLists == SeqsUpTo(ObjectItems, MaxItems)
Properties == {"null", "name"}

Idle ==
  /\ pc = "idle" /\ idx = 0 /\ left = 0 /\ i = 0 /\ current_mismatch_count = 0

Init ==
  /\ settings = << >>
  /\ op = "none"
  /\ args = NoArgs
  /\ thrown = "none"
  /\ searchString = << >>
  /\ items = << >>
  /\ itemProperty = "null"
  /\ result = << >>
  /\ Idle

\* let settings = new FuzzyMatchSettings(a, b, c, d)
New(A, B, C, D) ==
  /\ pc = "idle" /\ op = "none"
  /\ \E a \in A, b \in B, c \in C, d \in D :
       LET r == FuzzyMatchSettings(a, b, c, d)
       IN  /\ settings' = IF r.error = "none" THEN <<r.value>> ELSE settings
           /\ op' = "new"
           /\ args' = [a |-> a, b |-> b, c |-> c, d |-> d]
           /\ thrown' = r.error
  /\ searchString' = << >>
  /\ items' = << >>
  /\ itemProperty' = "null"
  /\ result' = << >>
  /\ UNCHANGED loopVars

NewSettings == New(SearchLengthArgs, FuzzyLengthArgs, PercentageArgs, CaseArgs)

\* fuzzySearch(q, its, settings)
CallFuzzySearch ==
  /\ pc = "idle" /\ op = "none"
  /\ \E q \in Queries, its \in StringLists :
       LET r == fuzzySearch(q, its, settings)
       IN  /\ op' = "fuzzySearch"
           /\ searchString' = q
           /\ items' = its
           /\ itemProperty' = "null"
           /\ thrown' = r.thrown
           /\ result' = r.result
  /\ args' = NoArgs
  /\ UNCHANGED <<settings, loopVars>>

\* fuzzySearchByProperty(q, its, p, settings)
CallFuzzySearchByProperty ==
  /\ pc = "idle" /\ op = "none"
  /\ \E q \in Queries, its \in StringLists \cup ObjectLists, p \in Properties :
       LET r == fuzzySearchByProperty(q, its, p, settings)
       IN  /\ op' = "fuzzySearchByProperty"
           /\ searchString' = q
           /\ items' = its
           /\ itemProperty' = p
           /\ thrown' = r.thrown
           /\ result' = r.result
  /\ args' = NoArgs
  /\ UNCHANGED <<settings, loopVars>>

\* the caller goes on to its next statement: the finished call's arguments and
\* outcome go out of scope, the settings bundle stays
Continue ==
  /\ pc = "idle" /\ op # "none"
  /\ op' = "none"
  /\ args' = NoArgs
  /\ thrown' = "none"
  /\ searchString' = << >>
  /\ items' = << >>
  /\ itemProperty' = "null"
  /\ result' = << >>
  /\ UNCHANGED <<settings, loopVars>>

Next == NewSettings \/ CallFuzzySearch \/ CallFuzzySearchByProperty \/ Continue

Spec == Init /\ [][Next]_vars

-----------------------------------------------------------------------------
(* Vocabulary of the properties *)

Searched == op \in {"fuzzySearch", "fuzzySearchByProperty"}

\* the settings the last search call ran with
Used == EffectiveSettings(settings)

\* the text as the search compares it: lower-cased unless the match is case sensitive
Fold(s) == IF Used.case_sensitive_match THEN s ELSE toLowerCase(s)

SubstringTierCall ==
  /\ Len(searchString) >= Used.minimum_length_for_search
  /\ Len(searchString) < Used.minimum_length_for_fuzzy_match

FuzzyTierCall ==
  /\ Len(searchString) >= Used.minimum_length_for_search
  /\ Len(searchString) >= Used.minimum_length_for_fuzzy_match

\* String.prototype.toUpperCase on one character: U+00DF becomes "SS"
toUpperCaseChar(c) ==
  CASE c = "d" -> <<"D">>
    [] c = "s" -> <<"S">>
    [] c = "sz" -> <<"S", "S">>
    [] OTHER -> <<c>>

RECURSIVE toUpperCase(_)
toUpperCase(s) ==
  IF s = << >> THEN << >> ELSE toUpperCaseChar(Head(s)) \o toUpperCase(Tail(s))

Recase(form, s) == IF form = "upper" THEN toUpperCase(s) ELSE toLowerCase(s)

\* both case conversions keep the length of s, and lower-casing undoes upper-casing
CaseRegular(s) ==
  /\ Len(toUpperCase(s)) = Len(s)
  /\ Len(toLowerCase(s)) = Len(s)
  /\ toLowerCase(toUpperCase(s)) = toLowerCase(s)
  /\ toLowerCase(toLowerCase(s)) = toLowerCase(s)

RECURSIVE IsSubsequence(_, _)
IsSubsequence(r, s) ==
  IF r = << >> THEN TRUE
  ELSE IF s = << >> THEN FALSE
  ELSE IF Head(r) = Head(s) THEN IsSubsequence(Tail(r), Tail(s))
  ELSE IsSubsequence(r, Tail(s))

-----------------------------------------------------------------------------
(* Properties of the atomic model *)

\* C1: in the exact-substring tier (minimum_length_for_search <= query length <
\* minimum_length_for_fuzzy_match), for plain strings passed to fuzzySearch and for
\* objects with a string field passed to fuzzySearchByProperty, the result is exactly
\* the candidates whose (folded) text contains the (folded) query.
C1_SubstringTierExact ==
  ( /\ Searched /\ thrown = "none" /\ items # << >> /\ SubstringTierCall
    /\ \/ op = "fuzzySearch"
       \/ /\ op = "fuzzySearchByProperty" /\ itemProperty = "name"
          /\ \A x \in Range(items) : x.kind = "object" )
  => result = SelectSeq(items, LAMBDA x : includes(Fold(x.text), Fold(searchString)))

\* C2 as stated: for every query of length >= minimum_length_for_fuzzy_match, every
\* candidate whose folded text contains the folded query is returned.
C2_Original ==
  ( /\ Searched /\ thrown = "none"
    /\ Len(searchString) >= Used.minimum_length_for_fuzzy_match )
  => \A k \in 1..Len(items) :
       (items[k].kind # "bare" /\ includes(Fold(items[k].text), Fold(searchString)))
         => items[k] \in Range(result)

\* C2 amended: for every query of length >= minimum_length_for_fuzzy_match and
\* >= minimum_length_for_search, every candidate whose folded text contains the
\* folded query is returned.
C2_ExactMatchReturned ==
  (Searched /\ thrown = "none" /\ FuzzyTierCall)
  => \A k \in 1..Len(items) :
       (items[k].kind # "bare" /\ includes(Fold(items[k].text), Fold(searchString)))
         => items[k] \in Range(result)

\* C2 witness: a fuzzy-tier call returned a candidate that contains the query at
\* an offset > 0 and left another candidate out.
C2_Witness ==
  ( /\ Searched /\ thrown = "none" /\ FuzzyTierCall
     /\ Len(result) < Len(items)
     /\ \E x \in Range(result) :
          /\ includes(Fold(x.text), Fold(searchString))
          /\ SubSeq(Fold(x.text), 1, Len(searchString)) # Fold(searchString) )

\* a supplied constructor argument that is outside the documented bound
ViolatesBound(g) ==
  \/ g.a # << >> /\ ~(0 < g.a[1])
  \/ g.b # << >> /\ ~(0 < g.b[1])
  \/ g.c # << >> /\ ~(0 <= g.c[1] /\ g.c[1] <= 50)

\* C4: a constructed bundle satisfies 0 < minimum_length_for_search,
\* 0 < minimum_length_for_fuzzy_match, 0 <= percentage_allowed_mismatch <= 50, and
\* the constructor raises whenever a supplied value violates its bound.
C4_ConstructionValidates ==
  /\ settings # << >> =>
       /\ 0 < settings[1].minimum_length_for_search
       /\ 0 < settings[1].minimum_length_for_fuzzy_match
       /\ 0 <= settings[1].percentage_allowed_mismatch
       /\ settings[1].percentage_allowed_mismatch <= 50
  /\ op = "new" => (ViolatesBound(args) => thrown # "none")
  /\ (op = "new" /\ args.a \in {<< >>, <<2>>} /\ args.b \in {<< >>, <<1>>}) =>
       /\ args.c = <<51>> => thrown = "percentage_allowed_mismatch"
       /\ args.c = <<50>> => thrown = "none"

C6_ShortQueryEmpty ==
  (op = "fuzzySearch" /\ Len(searchString) < Used.minimum_length_for_search)
  => (thrown = "none" /\ result = << >>)

\* C6 witness: a non-empty query below minimum_length_for_search, with a candidate
\* that contains it.
C6_Witness ==
  ( /\ op = "fuzzySearch" /\ searchString # << >>
     /\ Len(searchString) < Used.minimum_length_for_search
     /\ \E x \in Range(items) : includes(x.text, searchString)
     /\ result = << >> )

\* C7: fuzzySearchByProperty returns the empty sequence for an empty query or an
\* empty list; otherwise it raises the usage error exactly when the first item is
\* not a string and the selector is none or the first item's field is not a
\* string; a call that raises returns nothing.
C7_UsageError ==
  op = "fuzzySearchByProperty" =>
    /\ (searchString = << >> \/ items = << >>) => (thrown = "none" /\ result = << >>)
    /\ (searchString # << >> /\ items # << >>) =>
         ( thrown = "usage" <=>
             /\ items[1].kind # "string"
             /\ (itemProperty = "null" \/ items[1].kind = "bare") )
    /\ thrown \in {"none", "usage"}
    /\ thrown # "none" => result = << >>

\* C7 witness: the first item is fine, a later one has no string field, and the
\* call did not raise.
C7_Witness ==
  ( /\ op = "fuzzySearchByProperty" /\ searchString # << >> /\ thrown = "none"
     /\ Len(items) = 2 /\ items[1].kind = "object" /\ items[2].kind = "bare" )

\* C8: the returned sequence is a subsequence of the input sequence.
C8_OrderPreserved ==
  (Searched /\ thrown = "none") => IsSubsequence(result, items)

\* C8 witness: a fuzzy-tier call returned two different candidates.
C8_Witness ==
  ( /\ Searched /\ thrown = "none" /\ FuzzyTierCall
     /\ Len(result) = 2 /\ result[1] # result[2] )

\* the outcome of the last call with the query replaced by q2
WithQuery(q2) == fuzzySearchByProperty(q2, items, itemProperty, settings)

\* the outcome of the last call with every item x replaced by f[x]
WithItems(f(_)) ==
  fuzzySearchByProperty(searchString, [k \in 1..Len(items) |-> f(items[k])],
                        itemProperty, settings)

\* the outcome of the last call, every returned item x replaced by f[x]
Outcome(f(_)) ==
  [thrown |-> thrown, result |-> [k \in 1..Len(result) |-> f(result[k])]]

\* C9 as stated: with case_sensitive_match false, which candidates are returned
\* does not change when the query, or the candidates' text, is fully upper-cased
\* or fully lower-cased.
C9_Original ==
  (Searched /\ ~Used.case_sensitive_match) =>
    \A form \in {"upper", "lower"} :
      LET recase(x) == [x EXCEPT !.text = Recase(form, @)]
          same(x) == x
      IN  /\ WithQuery(Recase(form, searchString)) = Outcome(same)
          /\ WithItems(recase) = Outcome(recase)

\* C9 amended: the same, for a query and for candidate texts whose upper- and
\* lower-cased forms have the length of the original and whose upper-cased form
\* lower-cases to the lower-cased original (all ASCII text is such).
C9_CaseInsensitive ==
  (Searched /\ ~Used.case_sensitive_match) =>
    \A form \in {"upper", "lower"} :
      LET recase(x) == IF CaseRegular(x.text)
                         THEN [x EXCEPT !.text = Recase(form, @)] ELSE x
          same(x) == x
      IN  /\ CaseRegular(searchString) =>
               WithQuery(Recase(form, searchString)) = Outcome(same)
          /\ WithItems(recase) = Outcome(recase)

\* C9 witness: a case-insensitive fuzzy-tier call with an upper-case letter in
\* the query returned a candidate that matches only after folding.
C9_Witness ==
  ( /\ Searched /\ thrown = "none" /\ ~Used.case_sensitive_match /\ FuzzyTierCall
     /\ CaseRegular(searchString) /\ searchString # toLowerCase(searchString)
     /\ \E x \in Range(result) :
          /\ CaseRegular(x.text) /\ x.text # toLowerCase(x.text)
          /\ ~includes(x.text, searchString) )

-----------------------------------------------------------------------------
(* The step-by-step model: fuzzySearch on a one-element list, the loops of the *)
(* fuzzy tier executed one iteration at a time                                  *)

LoopSearchLengthArgs == {<< >>}
LoopFuzzyLengthArgs == {<<1>>, <<3>>}
LoopPercentageArgs == {<< >>, <<0>>, <<10>>, <<50>>}
LoopCaseArgs == {<< >>, <<TRUE>>}

LoopQueries == SeqsUpTo(LoopChars, MaxLoopLen)
LoopTexts == SeqsUpTo(LoopChars, MaxLoopLen)

LoopNewSettings ==
  New(LoopSearchLengthArgs, LoopFuzzyLengthArgs, LoopPercentageArgs, LoopCaseArgs)

\* the locals of the running call
searchLength == Len(searchString)
item_ == ItemText(items[idx], itemProperty, Used)

\* entry of fuzzySearch up to the first iteration of `for (const item of items)`
LoopBegin ==
  /\ pc = "idle" /\ op = "none"
  /\ \E q \in LoopQueries, t \in LoopTexts :
       LET its == <<[kind |-> "string", text |-> t]>>
           s == EffectiveSettings(settings)
       IN  /\ op' = "fuzzySearch"
           /\ searchString' = q
           /\ items' = its
           /\ itemProperty' = "null"
           /\ IF Len(q) = 0 \/ Len(its) = 0
                THEN thrown' = "none" /\ result' = << >> /\ pc' = "done"
              ELSE IF UsageError(its, "null")
                THEN thrown' = "usage" /\ result' = << >> /\ pc' = "done"
              ELSE IF BelowSearchLength(Len(q), s)
                THEN thrown' = "none" /\ result' = << >> /\ pc' = "done"
              ELSE IF BelowFuzzyLength(Len(q), s)
                THEN /\ thrown' = "none"
                     /\ result' = SubstringTier(q, its, "null", s)
                     /\ pc' = "done"
              ELSE thrown' = "none" /\ result' = << >> /\ pc' = "for"
  /\ idx' = 1
  /\ args' = NoArgs
  /\ UNCHANGED <<settings, left, i, current_mismatch_count>>

\* for (const item of items): the next item, or the return after the last one
LoopForItem ==
  /\ pc = "for"
  /\ IF idx > Len(items)
       THEN pc' = "done" /\ UNCHANGED <<left, current_mismatch_count>>
       ELSE pc' = "while" /\ left' = 0 /\ current_mismatch_count' = 0
  /\ UNCHANGED <<settings, callVars, idx, i>>

\* while (left + searchLength - 1 < _item.length)
LoopWhile ==
  /\ pc = "while"
  /\ IF left + searchLength - 1 < Len(item_)
       THEN pc' = "inner" /\ i' = left /\ idx' = idx
       ELSE pc' = "for" /\ idx' = idx + 1 /\ i' = i
  /\ UNCHANGED <<settings, callVars, left, current_mismatch_count>>

\* one iteration of for (let i = left; i < left + searchLength; i++)
LoopInner ==
  /\ pc = "inner"
  /\ IF i < left + searchLength
       THEN IF SearchText(searchString, Used)[i - left + 1] # item_[i + 1]
              THEN /\ current_mismatch_count' = current_mismatch_count + 1
                   /\ IF current_mismatch_count + 1
                           > max_allowed_mismatch_count(searchLength, Used)
                        THEN pc' = "check" /\ i' = i
                        ELSE pc' = "inner" /\ i' = i + 1
              ELSE pc' = "inner" /\ i' = i + 1 /\ UNCHANGED current_mismatch_count
       ELSE pc' = "check" /\ UNCHANGED <<i, current_mismatch_count>>
  /\ UNCHANGED <<settings, callVars, idx, left>>

\* variant: the counter is not reset before the next window
LoopCheckNoReset ==
  /\ pc = "check"
  /\ IF current_mismatch_count <= max_allowed_mismatch_count(searchLength, Used)
       THEN /\ result' = Append(result, items[idx])
            /\ pc' = "for" /\ idx' = idx + 1
            /\ UNCHANGED <<left, current_mismatch_count>>
       ELSE /\ left' = left + 1
            /\ pc' = "while"
            /\ UNCHANGED <<result, idx, current_mismatch_count>>
  /\ UNCHANGED <<settings, op, args, thrown, searchString, items, itemProperty, i>>

\* the end of the while body: push and break, or reset the counter and slide
LoopCheck ==
  /\ pc = "check"
  /\ IF current_mismatch_count <= max_allowed_mismatch_count(searchLength, Used)
       THEN /\ result' = Append(result, items[idx])
            /\ pc' = "for" /\ idx' = idx + 1
            /\ UNCHANGED <<left, current_mismatch_count>>
       ELSE /\ current_mismatch_count' = 0
            /\ left' = left + 1
            /\ pc' = "while"
            /\ UNCHANGED <<result, idx>>
  /\ UNCHANGED <<settings, op, args, thrown, searchString, items, itemProperty, i>>

\* the call has returned to the caller
LoopReturn ==
  /\ pc = "done"
  /\ pc' = "idle" /\ idx' = 0 /\ left' = 0 /\ i' = 0 /\ current_mismatch_count' = 0
  /\ UNCHANGED <<settings, callVars>>

LoopStep == LoopForItem \/ LoopWhile \/ LoopInner \/ LoopCheck \/ LoopReturn

LoopNext ==
  \/ LoopNewSettings
  \/ LoopBegin
  \/ LoopForItem
  \/ LoopWhile
  \/ LoopInner
  \/ LoopCheck
  \/ LoopReturn
  \/ Continue

\* a call that has started runs to completion
LoopSpec == Init /\ [][LoopNext]_vars /\ WF_vars(LoopStep)

-----------------------------------------------------------------------------
(* Properties of the step-by-step model *)

\* the step-by-step execution returns what the atomic fuzzySearch returns
StepModelAgrees ==
  pc = "done" =>
    fuzzySearch(searchString, items, settings) = [thrown |-> thrown, result |-> result]

\* C3: for supplied percentages p1 <= p2 in [0, 50] and the other constructor
\* arguments equal, every candidate returned with the bundle constructed from p1
\* is returned with the bundle constructed from p2.
C3_MonotoneInPercentage ==
  (pc = "done" /\ thrown = "none" /\ settings # << >>) =>
    \A a \in LoopSearchLengthArgs, b \in LoopFuzzyLengthArgs, d \in LoopCaseArgs :
      \A p1, p2 \in LoopPercentageArgs \ {<< >>} :
        ( /\ 0 <= p1[1] /\ p1[1] <= p2[1] /\ p2[1] <= 50
          /\ FuzzyMatchSettings(a, b, p1, d) = [error |-> "none", value |-> settings[1]] )
        => \A x \in Range(result) :
             x \in Range(fuzzySearchByProperty(searchString, items, itemProperty,
                           <<FuzzyMatchSettings(a, b, p2, d).value>>).result)

\* the full-window reference: some window of the folded candidate differs from the
\* folded query in at most floor(n * percentage_allowed_mismatch / 100) positions
ReferenceMatch(query, text, percentage) ==
  LET n == Len(query)
  IN  \E lft \in 0..(Len(text) - n) :
        Cardinality({k \in 0..(n - 1) : query[k + 1] # text[lft + k + 1]})
          <= (n * percentage) \div 100

\* C10: in the fuzzy tier the loop returns the candidate iff the full-window
\* reference accepts it, never returns a candidate shorter than the query, and
\* the loop terminates.
C10_LoopEqualsReference ==
  /\ []( (pc = "done" /\ thrown = "none" /\ items # << >> /\ FuzzyTierCall) =>
           /\ result \in {<< >>, items}
           /\ result = items <=>
                ReferenceMatch(Fold(searchString), Fold(items[1].text),
                               Used.percentage_allowed_mismatch)
           /\ Len(items[1].text) < Len(searchString) => result = << >> )
  /\ (pc = "for") ~> (pc = "done")

\* C10 witness: the call returned a candidate whose first window was abandoned
\* early and whose matching window is a later one with a mismatch in it.
C10_Witness ==
  /\ pc = "done" /\ thrown = "none" /\ FuzzyTierCall /\ result = items /\ items # << >>
  /\ left > 0
  /\ current_mismatch_count > 0

====
